---- MODULE Spec2Model ----
(***************************************************************************)
(* Veritas client: the status-polling and display-state reconciliation     *)
(* loop of frontend/src/Analyzer.tsx (React component Analyzer).           *)
(*                                                                         *)
(* The component state (useState hooks), the polling effect (one closure   *)
(* per effect run, holding its own `lastAgent` and `interval`), the        *)
(* requests in flight and the pending setTimeout callbacks are the state.  *)
(* Every event handler / async continuation is one action.                 *)
(*                                                                         *)
(* Two further parts are followed on their own: the statements of          *)
(* buildAgentResults that read the list of missing reproducibility items   *)
(* (SpecBuild), and the agent list of the static client static/app.js      *)
(* (SpecStatic).                                                           *)
(***************************************************************************)
EXTENDS Integers, Sequences, FiniteSets, TLC

(* ------------------------------ bounds --------------------------------- *)
\* number of submissions (handleUpload calls that reach the upload fetch)
MaxJobs == 2
\* number of status fetches issued over the whole run
MaxRequests == 2
\* number of status fetches in flight at the same time
MaxInFlight == 2
\* length of a list of missing items in a results payload
MaxItems == 2

(* --------------------------- program constants ------------------------- *)
\* useState<string | null>(null): the null / undefined session id
NoSession == 0
\* a snapshot without a progress field (data.progress is undefined)
NoProgress == -1
\* clearInterval'ed / never armed timer handle
NoTimer == 0

\* createInitialNodes: the seven node ids, in array order
StageOrder == <<"paper", "repro", "evidence", "stats", "related", "reviewer", "verdict">>
StageIds == {StageOrder[i] : i \in 1..Len(StageOrder)}

\* createInitialNodes: every node starts idle
createInitialNodes == [n \in StageIds |-> "idle"]

\* createInitialEdges: target of each of the eight edges
EdgeTarget ==
  [e1 |-> "repro", e2 |-> "evidence", e3 |-> "stats", e4 |-> "related",
   e5 |-> "reviewer", e6 |-> "reviewer", e7 |-> "reviewer", e8 |-> "verdict"]
EdgeIds == DOMAIN EdgeTarget

\* createInitialEdges: every edge starts with data.active = false
createInitialEdges == [e \in EdgeIds |-> FALSE]

\* mapAgentName: the seven keys of the lookup table
BackendAgents ==
  {"PaperParserAgent", "ReproducibilityAgent", "ExperimentEvidenceAgent",
   "StatisticalAuditorAgent", "RelatedWorkBaselineAgent", "ReviewerSimulationAgent",
   "VerdictAgent"}

\* mapAgentName: `map` is an object literal, so map[name] also finds the
\* properties every object inherits from Object.prototype
InheritedKeys == {"constructor", "toString", "valueOf", "hasOwnProperty"}

\* what map[name] yields for an inherited key: a built-in function, written
\* here the way it prints; it is truthy and it is not the name
InheritedValue(name) ==
  "function " \o (IF name = "constructor" THEN "Object" ELSE name) \o "() { [native code] }"

\* mapAgentName: the lookup table, map[name] || name
mapAgentName(name) ==
  CASE name = "PaperParserAgent" -> "paper"
    [] name = "ReproducibilityAgent" -> "repro"
    [] name = "ExperimentEvidenceAgent" -> "evidence"
    [] name = "StatisticalAuditorAgent" -> "stats"
    [] name = "RelatedWorkBaselineAgent" -> "related"
    [] name = "ReviewerSimulationAgent" -> "reviewer"
    [] name = "VerdictAgent" -> "verdict"
    [] name \in InheritedKeys -> InheritedValue(name)
    [] OTHER -> name

\* updateNodeStatus: nds.map(n => n.id === nodeId ? {...status} : n)
updateNodeStatus(nds, nodeId, status) ==
  [n \in StageIds |-> IF n = nodeId THEN status ELSE nds[n]]

\* updateEdgeActive: eds.map(e => e.target === targetId ? {...active} : e)
updateEdgeActive(eds, targetId, active) ==
  [e \in EdgeIds |-> IF EdgeTarget[e] = targetId THEN active ELSE eds[e]]

\* addLog: one LogEntry (the wall-clock time field is not modelled)
LogEntry(agent, msg, type) == [agent |-> agent, msg |-> msg, type |-> type]

(* ------------------------- inputs from the backend --------------------- *)
\* current_agent values the status endpoint may send ("" = absent/falsy)
ServerAgents == {"", "PaperParserAgent", "ExperimentEvidenceAgent",
                 "ReviewerSimulationAgent", "MysteryAgent"}
\* progress values the status endpoint may send
ProgressValues == {NoProgress, 60, 120}
\* results field: absent, or a results object
ResultValues == {"undefined", "payload"}
\* error messages the status endpoint may send
ErrorValues == {"boom"}

\* GET /api/status/{id} bodies that parse as an object
Snapshots ==
  [status : {"running"}, current_agent : ServerAgents, progress : ProgressValues,
   results : {"undefined"}, error : {"undefined"}]
  \cup
  [status : {"completed"}, current_agent : ServerAgents, progress : ProgressValues,
   results : ResultValues, error : {"undefined"}]
  \cup
  [status : {"error"}, current_agent : ServerAgents, progress : ProgressValues,
   results : {"undefined"}, error : ErrorValues]

\* current_agent values for the lookup: the seven backend names, a name the
\* table does not know, and a name that is an inherited property
LookupAgents == BackendAgents \cup {"MysteryAgent", "constructor"}

\* running snapshots naming each of the LookupAgents, next to the Snapshots
SnapshotsLookup ==
  Snapshots
  \cup
  [status : {"running"}, current_agent : LookupAgents, progress : {NoProgress},
   results : {"undefined"}, error : {"undefined"}]

\* the JSON body of a non-200 answer (FastAPI's {"detail": ...}): an object
\* with none of the snapshot's fields
ErrorBody ==
  [status |-> "undefined", current_agent |-> "", progress |-> NoProgress,
   results |-> "undefined", error |-> "undefined"]

(* --------------------- the results payload (excerpt) ------------------- *)
\* entries of the missing-items lists; '' is a falsy entry
Items == {"A", "B", ""}
\* the arrays a list field may hold
ItemLists == UNION {[1..n -> Items] : n \in 0..MaxItems}
\* a list field that is absent (undefined or null)
Absent == [defined |-> FALSE, items |-> << >>]
\* a list field: absent, or an array (an empty array is defined)
Fields == {Absent} \cup {[defined |-> TRUE, items |-> l] : l \in ItemLists}
\* data.reproducibility, reduced to the two names of the missing-items list;
\* an absent data.reproducibility is the payload with both fields absent
Payloads == [missing_items : Fields, missing_reproducibility_items : Fields]
NoPayload == [missing_items |-> Absent, missing_reproducibility_items |-> Absent]

(* -------------------------------- state -------------------------------- *)
VARIABLES
  nodes,        \* useNodesState: node id -> data.status
  edges,        \* useEdgesState: edge id -> data.active
  stage,        \* 'upload' | 'processing' | 'results'
  files,        \* files.paper is set
  sessionId,    \* job id, NoSession when null / undefined
  progress,     \* progress percentage
  logs,         \* sequence of LogEntry
  results,      \* "null" or the stored data.results
  error,        \* "null" or the banner text
  lastAgent,    \* lastAgent[k]: the `lastAgent` variable of the k-th effect run
  interval,     \* the effect run whose setInterval is armed, or NoTimer
  timers,       \* every setInterval handle not cleared yet: [eff, job]
  pending,      \* status fetches in flight: [eff, job, seq]
  uploading,    \* upload fetches in flight (job numbers)
  timeouts,     \* pending setTimeout(() => setStage('results'), 800) callbacks
  uploads,      \* number of upload fetches issued so far
  issued,       \* number of status fetches issued so far
  lastApplied,  \* highest seq of a status response that was applied so far
  observed,     \* <<job, status>> of every terminal snapshot processed so far
  data,         \* buildAgentResults: its argument (the reproducibility section)
  missingItems, \* buildAgentResults: const missingItems
  reproFindings,\* buildAgentResults: const reproFindings
  built,        \* buildAgentResults has run its reproducibility statements
  agentItems,            \* app.js: classList of each .agent-item, by position
  completedAgents,       \* app.js: the Set of startStatusPolling
  currentAgentEl,        \* app.js: text of #current-agent
  progressBar,           \* app.js: the percentage written to #progress-bar
  statusPollingInterval, \* app.js: the polling interval is armed
  section,               \* app.js: the section that is not hidden
  statusFetches,         \* app.js: status fetches in flight
  showResultsTimers      \* app.js: pending setTimeout(showResults) callbacks

reactVars == <<nodes, edges, stage, files, sessionId, progress, logs, results, error,
          lastAgent, interval, timers, pending, uploading, timeouts, uploads, issued,
          lastApplied, observed>>

buildVars == <<data, missingItems, reproFindings, built>>

staticVars == <<agentItems, completedAgents, currentAgentEl, progressBar,
                statusPollingInterval, section, statusFetches, showResultsTimers>>

vars == <<reactVars, buildVars, staticVars>>

\* app.js: updateAgentList, const agentOrder
agentOrder ==
  <<"PaperParserAgent", "ReproducibilityAgent", "ExperimentEvidenceAgent",
    "StatisticalAuditorAgent", "RelatedWorkBaselineAgent", "ReviewerSimulationAgent",
    "VerdictAgent">>

\* app.js: the page as loaded, upload section shown, no item marked
StaticIdle ==
  /\ agentItems = [k \in 1..Len(agentOrder) |-> {}]
  /\ completedAgents = {}
  /\ currentAgentEl = ""
  /\ progressBar = 0
  /\ statusPollingInterval = FALSE
  /\ section = "upload"
  /\ statusFetches = 0
  /\ showResultsTimers = 0

\* buildAgentResults has not been called
BuildIdle ==
  /\ data = NoPayload
  /\ missingItems = << >>
  /\ reproFindings = << >>
  /\ built = FALSE

InitReact ==
  /\ nodes = createInitialNodes
  /\ edges = createInitialEdges
  /\ stage = "upload"
  /\ files = FALSE
  /\ sessionId = NoSession
  /\ progress = 0
  /\ logs = <<>>
  /\ results = "null"
  /\ error = "null"
  /\ lastAgent = <<>>
  /\ interval = NoTimer
  /\ timers = {}
  /\ pending = {}
  /\ uploading = {}
  /\ timeouts = 0
  /\ uploads = 0
  /\ issued = 0
  /\ lastApplied = 0
  /\ observed = {}

Init == InitReact /\ BuildIdle /\ StaticIdle

(* ------------------------- the polling useEffect ----------------------- *)
\* mutant: the effect returns no cleanup, a re-run leaves the old handle armed
PollEffect_NoCleanup(newSession, newStage, cur) ==
  IF newSession = sessionId /\ newStage = stage
  THEN /\ interval' = cur
       /\ lastAgent' = lastAgent
       /\ timers' = timers
  ELSE IF newSession # NoSession /\ newStage = "processing"
       THEN /\ interval' = Len(lastAgent) + 1
            /\ lastAgent' = Append(lastAgent, "")
            /\ timers' = timers \cup {[eff |-> Len(lastAgent) + 1, job |-> newSession]}
       ELSE /\ interval' = NoTimer
            /\ lastAgent' = lastAgent
            /\ timers' = timers

\* useEffect(..., [sessionId, stage, ...]): when a dependency changed, the
\* cleanup clears the running interval and the effect body runs again; it
\* arms a new interval with a fresh lastAgent = '' only when a session id is
\* set and the stage is 'processing'.  `cur` is the interval handle left by
\* the handler itself; the cleanup (return () => clearInterval(interval))
\* clears the handle of the effect run it belongs to.
PollEffect(newSession, newStage, cur) ==
  IF newSession = sessionId /\ newStage = stage
  THEN /\ interval' = cur
       /\ lastAgent' = lastAgent
       /\ timers' = timers
  ELSE IF newSession # NoSession /\ newStage = "processing"
       THEN /\ interval' = Len(lastAgent) + 1
            /\ lastAgent' = Append(lastAgent, "")
            /\ timers' = {t \in timers : t.eff # cur}
                            \cup {[eff |-> Len(lastAgent) + 1, job |-> newSession]}
       ELSE /\ interval' = NoTimer
            /\ lastAgent' = lastAgent
            /\ timers' = {t \in timers : t.eff # cur}


(* ------------------------------- handlers ------------------------------ *)
\* paper <input> onChange: setFiles(fs => ({...fs, paper: f}))
SelectPaper ==
  /\ stage = "upload"
  /\ UNCHANGED <<buildVars, staticVars>>
  /\ ~files
  /\ files' = TRUE
  /\ UNCHANGED <<nodes, edges, stage, sessionId, progress, logs, results, error,
                 lastAgent, interval, timers, pending, uploading, timeouts,
                 uploads, issued, lastApplied, observed>>

\* the four banner lines handleUpload writes after setLogs([])
UploadBanner ==
  << LogEntry("system", "banner", "info"),
     LogEntry("system", "Veritas Verification System", "info"),
     LogEntry("system", "banner", "info"),
     LogEntry("system", "Initializing agents...", "info") >>

\* mutant: handleUpload without its `if (!files.paper) return`
handleUpload_NoGuard ==
  /\ stage = "upload"
  /\ UNCHANGED <<buildVars, staticVars>>
  /\ uploads < MaxJobs
  /\ stage' = "processing"
  /\ logs' = UploadBanner
  /\ nodes' = createInitialNodes
  /\ uploads' = uploads + 1
  /\ uploading' = uploading \cup {uploads + 1}
  /\ PollEffect(sessionId, "processing", interval)
  /\ UNCHANGED <<edges, files, sessionId, progress, results, error,
                 pending, timeouts, issued, lastApplied, observed>>

\* handleUpload up to its await: the "Start Analysis" button is rendered in
\* the upload stage only; without a paper file the handler returns at once.
handleUploadWithin(limit) ==
  /\ stage = "upload"
  /\ UNCHANGED <<buildVars, staticVars>>
  /\ uploads < limit
  /\ IF ~files
     THEN UNCHANGED vars
     ELSE /\ stage' = "processing"
          /\ logs' = UploadBanner
          /\ nodes' = createInitialNodes
          /\ uploads' = uploads + 1
          /\ uploading' = uploading \cup {uploads + 1}
          /\ PollEffect(sessionId, "processing", interval)
          /\ UNCHANGED <<edges, files, sessionId, progress, results, error,
                         pending, timeouts, issued, lastApplied, observed>>

\* handleUpload, for at most MaxJobs submissions per run
handleUpload == handleUploadWithin(MaxJobs)

\* handleUpload after its await, the response carries session_id = j
UploadOk(j) ==
  /\ j \in uploading
  /\ UNCHANGED <<buildVars, staticVars>>
  /\ uploading' = uploading \ {j}
  /\ sessionId' = j
  /\ logs' = Append(logs, LogEntry("system", "Session: " \o ToString(j), "success"))
  /\ PollEffect(j, stage, interval)
  /\ UNCHANGED <<nodes, edges, stage, files, progress, results, error, pending,
                 timeouts, uploads, issued, lastApplied, observed>>

\* handleUpload after its await, the body is JSON without session_id:
\* setSessionId(undefined), then data.session_id.slice throws into the catch
UploadNoId(j) ==
  /\ j \in uploading
  /\ UNCHANGED <<buildVars, staticVars>>
  /\ uploading' = uploading \ {j}
  /\ sessionId' = NoSession
  /\ error' = "Upload failed"
  /\ PollEffect(NoSession, stage, interval)
  /\ UNCHANGED <<nodes, edges, stage, files, progress, logs, results, pending,
                 timeouts, uploads, issued, lastApplied, observed>>

\* handleUpload after its await, fetch rejects or res.json() throws
UploadFail(j) ==
  /\ j \in uploading
  /\ UNCHANGED <<buildVars, staticVars>>
  /\ uploading' = uploading \ {j}
  /\ error' = "Upload failed"
  /\ UNCHANGED <<nodes, edges, stage, files, sessionId, progress, logs, results,
                 lastAgent, interval, timers, pending, timeouts, uploads, issued,
                 lastApplied, observed>>

\* one firing of the armed setInterval callback, up to its await: the fetch
\* of /api/status/${sessionId} is issued (at most `limit` fetches per run)
Tick(limit) ==
  /\ issued < limit
  /\ UNCHANGED <<buildVars, staticVars>>
  /\ Cardinality(pending) < MaxInFlight
  /\ issued' = issued + 1
  /\ \E t \in timers :
       pending' = pending \cup {[eff |-> t.eff, job |-> t.job, seq |-> issued + 1]}
  /\ UNCHANGED <<nodes, edges, stage, files, sessionId, progress, logs, results,
                 error, lastAgent, interval, timers, uploading, timeouts, uploads,
                 lastApplied, observed>>

\* the interval callback after its await, for a body that is not an object
\* (or a rejected fetch): the catch block only logs to the console
PollFail(r) ==
  /\ r \in pending
  /\ UNCHANGED <<buildVars, staticVars>>
  /\ pending' = pending \ {r}
  /\ UNCHANGED <<nodes, edges, stage, files, sessionId, progress, logs, results,
                 error, lastAgent, interval, timers, uploading, timeouts, uploads,
                 issued, lastApplied, observed>>

\* mutant: the block runs for every snapshot that names an agent
AgentChanged_EveryPoll(r, snap) ==
  /\ snap.current_agent # ""

\* mutant: the block runs without the `if (data.current_agent)` test
AgentChanged_AcceptsEmpty(r, snap) ==
  /\ mapAgentName(snap.current_agent) # lastAgent[r.eff]

\* agentId !== lastAgent, for a snapshot with a (truthy) current_agent
AgentChanged(r, snap) ==
  /\ snap.current_agent # ""
  /\ mapAgentName(snap.current_agent) # lastAgent[r.eff]

\* node map after the current_agent block of the interval callback
NodesAfterAgent(r, snap) ==
  LET prev == lastAgent[r.eff]
      done == IF prev # "" THEN updateNodeStatus(nodes, prev, "success") ELSE nodes
  IN  IF AgentChanged(r, snap)
      THEN updateNodeStatus(done, mapAgentName(snap.current_agent), "running")
      ELSE nodes

\* edge map after the current_agent block of the interval callback
EdgesAfterAgent(r, snap) ==
  LET prev == lastAgent[r.eff]
      done == IF prev # "" THEN updateEdgeActive(edges, prev, FALSE) ELSE edges
  IN  IF AgentChanged(r, snap)
      THEN updateEdgeActive(done, mapAgentName(snap.current_agent), TRUE)
      ELSE edges

\* mutant: the 'Processing...' line is written before the completion line
LogsAfterAgent_ProcessingFirst(r, snap) ==
  LET prev == lastAgent[r.eff]
      begun == Append(logs, LogEntry(mapAgentName(snap.current_agent), "Processing...", "info"))
  IN  IF AgentChanged(r, snap)
      THEN IF prev # "" THEN Append(begun, LogEntry(prev, "Complete", "success")) ELSE begun
      ELSE logs

\* log after the current_agent block of the interval callback
LogsAfterAgent(r, snap) ==
  LET prev == lastAgent[r.eff]
      done == IF prev # "" THEN Append(logs, LogEntry(prev, "Complete", "success"))
              ELSE logs
  IN  IF AgentChanged(r, snap)
      THEN Append(done, LogEntry(mapAgentName(snap.current_agent), "Processing...", "info"))
      ELSE logs

\* buildAgentResults(data.results) dereferences data.paper_analysis: it
\* throws a TypeError when data.results is undefined
buildAgentResultsThrows(res) == res = "undefined"

\* setProgress(data.progress || 0)
ProgressOf(snap) == IF snap.progress = NoProgress THEN 0 ELSE snap.progress

\* data.status === 'completed' || data.status === 'error'
Terminal(snap) == snap.status \in {"completed", "error"}

\* mutant: the completed block marks only the stage shown running as success
NodesAfterStatus_OnlyRunning(r, snap) ==
  IF snap.status = "completed"
  THEN [n \in StageIds |-> IF NodesAfterAgent(r, snap)[n] = "running"
                           THEN "success"
                           ELSE NodesAfterAgent(r, snap)[n]]
  ELSE NodesAfterAgent(r, snap)

\* mutant: the error block puts every node back to idle
NodesAfterStatus_ErrorResets(r, snap) ==
  CASE snap.status = "completed" -> [n \in StageIds |-> "success"]
    [] snap.status = "error" -> createInitialNodes
    [] OTHER -> NodesAfterAgent(r, snap)

\* node map at the end of the interval callback: the completed block sets
\* every node of createInitialNodes() to success, the error block sets none
NodesAfterStatus(r, snap) ==
  IF snap.status = "completed"
  THEN [n \in StageIds |-> "success"]
  ELSE NodesAfterAgent(r, snap)

\* edge map at the end of the interval callback: the completed block
\* deactivates the target of every edge of createInitialEdges()
EdgesAfterStatus(r, snap) ==
  IF snap.status = "completed"
  THEN [e \in EdgeIds |-> FALSE]
  ELSE EdgesAfterAgent(r, snap)

\* mutant: the completed block writes the log anew instead of appending
LogsAfterStatus_Rewrites(r, snap) ==
  CASE snap.status = "completed" ->
         << LogEntry("system", "Analysis complete", "success") >>
    [] snap.status = "error" ->
         Append(LogsAfterAgent(r, snap), LogEntry("error", snap.error, "error"))
    [] OTHER -> LogsAfterAgent(r, snap)

\* log at the end of the interval callback
LogsAfterStatus(r, snap) ==
  CASE snap.status = "completed" ->
         Append(LogsAfterAgent(r, snap), LogEntry("system", "Analysis complete", "success"))
    [] snap.status = "error" ->
         Append(LogsAfterAgent(r, snap), LogEntry("error", snap.error, "error"))
    [] OTHER -> LogsAfterAgent(r, snap)

\* mutant: the error block forgets setError
ErrorAfterStatus_NoBanner(snap) == error

\* setError(data.error) of the error block
ErrorAfterStatus(snap) == IF snap.status = "error" THEN snap.error ELSE error

\* mutant: the error block forgets clearInterval
IntervalAfterStatus_CompletedOnly(r, snap) ==
  IF snap.status = "completed" /\ interval = r.eff THEN NoTimer ELSE interval

\* clearInterval(interval) of the completed and error blocks; `interval` is
\* the handle of the effect run that issued the request
IntervalAfterStatus(r, snap) ==
  IF Terminal(snap) /\ interval = r.eff THEN NoTimer ELSE interval

\* the handles still armed after clearInterval(interval) of the completed
\* and error blocks
TimersAfterStatus(r, snap) ==
  IF Terminal(snap) THEN {t \in timers : t.eff # r.eff} ELSE timers

\* setTimeout(() => setStage('results'), 800), reached only when
\* buildAgentResults returned
TimeoutsAfterStatus(snap) ==
  IF snap.status = "completed" /\ ~buildAgentResultsThrows(snap.results)
  THEN timeouts + 1
  ELSE timeouts

\* the interval callback after its await, for a body that parses as `snap`
PollResponse(r, snap) ==
  /\ r \in pending
  /\ UNCHANGED <<buildVars, staticVars>>
  /\ pending' = pending \ {r}
  /\ progress' = ProgressOf(snap)
  /\ lastAgent' = IF AgentChanged(r, snap)
                  THEN [lastAgent EXCEPT ![r.eff] = mapAgentName(snap.current_agent)]
                  ELSE lastAgent
  /\ nodes' = NodesAfterStatus(r, snap)
  /\ edges' = EdgesAfterStatus(r, snap)
  /\ logs' = LogsAfterStatus(r, snap)
  /\ results' = IF snap.status = "completed" THEN snap.results ELSE results
  /\ timeouts' = TimeoutsAfterStatus(snap)
  /\ error' = ErrorAfterStatus(snap)
  /\ interval' = IntervalAfterStatus(r, snap)
  /\ timers' = TimersAfterStatus(r, snap)
  /\ lastApplied' = IF r.seq > lastApplied THEN r.seq ELSE lastApplied
  /\ observed' = IF Terminal(snap)
                 THEN observed \cup {<<r.job, snap.status>>}
                 ELSE observed
  /\ UNCHANGED <<stage, files, sessionId, uploading, uploads, issued>>

\* the interval callback after its await, for a non-200 answer with a JSON
\* body: res.ok is not tested, the body goes through the same statements
PollHttpError(r) == PollResponse(r, ErrorBody)

\* a pending setTimeout(() => setStage('results'), 800) fires
ShowResults ==
  /\ timeouts > 0
  /\ UNCHANGED <<buildVars, staticVars>>
  /\ timeouts' = timeouts - 1
  /\ stage' = "results"
  /\ PollEffect(sessionId, "results", interval)
  /\ UNCHANGED <<nodes, edges, files, sessionId, progress, logs, results, error,
                 pending, uploading, uploads, issued, lastApplied, observed>>

\* mutant: reset without setEdges(createInitialEdges()) and setError(null)
reset_KeepsEdges ==
  /\ stage = "results"
  /\ UNCHANGED <<buildVars, staticVars>>
  /\ stage' = "upload"
  /\ files' = FALSE
  /\ sessionId' = NoSession
  /\ progress' = 0
  /\ logs' = <<>>
  /\ results' = "null"
  /\ nodes' = createInitialNodes
  /\ PollEffect(NoSession, "upload", interval)
  /\ UNCHANGED <<edges, error, pending, uploading, timeouts, uploads, issued,
                 lastApplied, observed>>

\* reset: the "New Analysis" button of the results panel
reset ==
  /\ stage = "results"
  /\ UNCHANGED <<buildVars, staticVars>>
  /\ stage' = "upload"
  /\ files' = FALSE
  /\ sessionId' = NoSession
  /\ progress' = 0
  /\ logs' = <<>>
  /\ results' = "null"
  /\ error' = "null"
  /\ nodes' = createInitialNodes
  /\ edges' = createInitialEdges
  /\ PollEffect(NoSession, "upload", interval)
  /\ UNCHANGED <<pending, uploading, timeouts, uploads, issued, lastApplied, observed>>

Next ==
  \/ SelectPaper
  \/ handleUpload
  \/ \E j \in uploading : UploadOk(j)
  \/ \E j \in uploading : UploadNoId(j)
  \/ \E j \in uploading : UploadFail(j)
  \/ Tick(MaxRequests)
  \/ \E r \in pending : PollFail(r)
  \/ \E r \in pending : PollHttpError(r)
  \/ \E r \in pending, snap \in Snapshots : PollResponse(r, snap)
  \/ ShowResults
  \/ reset

Spec == Init /\ [][Next]_vars

\* the same program followed for one more status fetch: a response of an
\* earlier job can then meet the first response of the next job
NextLate ==
  \/ SelectPaper
  \/ handleUpload
  \/ \E j \in uploading : UploadOk(j)
  \/ \E j \in uploading : UploadNoId(j)
  \/ \E j \in uploading : UploadFail(j)
  \/ Tick(MaxRequests + 1)
  \/ \E r \in pending : PollFail(r)
  \/ \E r \in pending : PollHttpError(r)
  \/ \E r \in pending, snap \in Snapshots : PollResponse(r, snap)
  \/ ShowResults
  \/ reset

SpecLate == Init /\ [][NextLate]_vars

\* the same program followed for one more submission: the response of an
\* earlier upload can then arrive after a reset and before the next submit
NextJobs ==
  \/ SelectPaper
  \/ handleUploadWithin(MaxJobs + 1)
  \/ \E j \in uploading : UploadOk(j)
  \/ \E j \in uploading : UploadNoId(j)
  \/ \E j \in uploading : UploadFail(j)
  \/ Tick(MaxRequests)
  \/ \E r \in pending : PollFail(r)
  \/ \E r \in pending : PollHttpError(r)
  \/ \E r \in pending, snap \in Snapshots : PollResponse(r, snap)
  \/ ShowResults
  \/ reset

SpecJobs == Init /\ [][NextJobs]_vars

\* the same program with the status endpoint naming any of the LookupAgents
NextLookup ==
  \/ SelectPaper
  \/ handleUpload
  \/ \E j \in uploading : UploadOk(j)
  \/ \E j \in uploading : UploadNoId(j)
  \/ \E j \in uploading : UploadFail(j)
  \/ Tick(MaxRequests)
  \/ \E r \in pending : PollFail(r)
  \/ \E r \in pending : PollHttpError(r)
  \/ \E r \in pending, snap \in SnapshotsLookup : PollResponse(r, snap)
  \/ ShowResults
  \/ reset

SpecLookup == Init /\ [][NextLookup]_vars

(* ------------------- buildAgentResults, missing items ------------------ *)
\* data.reproducibility?.missing_items
\*   || data.reproducibility?.missing_reproducibility_items || []
\* (an array, empty or not, is truthy; an absent field is not)
MissingItemsOf(d) ==
  IF d.missing_items.defined THEN d.missing_items.items
  ELSE IF d.missing_reproducibility_items.defined
       THEN d.missing_reproducibility_items.items
       ELSE << >>

\* missingItems.forEach(item => item && reproFindings.push(`Missing: ${item}`))
MissingFindings(l) ==
  LET kept == SelectSeq(l, LAMBDA item : item # "")
  IN  [i \in 1..Len(kept) |-> "Missing: " \o kept[i]]

\* buildAgentResults, its statements on the missing-items list
buildAgentResults ==
  /\ ~built
  /\ built' = TRUE
  /\ missingItems' = MissingItemsOf(data)
  /\ reproFindings' = MissingFindings(MissingItemsOf(data))
  /\ UNCHANGED <<data, reactVars, staticVars>>

\* buildAgentResults is handed any of the Payloads
InitBuild ==
  /\ InitReact
  /\ StaticIdle
  /\ data \in Payloads
  /\ missingItems = << >>
  /\ reproFindings = << >>
  /\ built = FALSE

NextBuild == buildAgentResults

SpecBuild == InitBuild /\ [][NextBuild]_vars

(* ---------------------- static client, static/app.js ------------------- *)
\* status bodies the static client may receive
StaticSnapshots ==
  [status : {"running", "completed", "error"},
   current_agent : BackendAgents \cup {"", "MysteryAgent"},
   progress : {NoProgress, 60}]

\* agentOrder.indexOf(currentAgent), counted from 1; 0 when it is not there
indexOf(currentAgent) ==
  IF \E k \in 1..Len(agentOrder) : agentOrder[k] = currentAgent
  THEN CHOOSE k \in 1..Len(agentOrder) : agentOrder[k] = currentAgent
  ELSE 0

\* formatAgentName: names[agentName] || agentName
formatAgentName(agentName) ==
  CASE agentName = "PaperParserAgent" -> "Parsing Paper..."
    [] agentName = "ReproducibilityAgent" -> "Checking Reproducibility..."
    [] agentName = "ExperimentEvidenceAgent" -> "Mapping Experiments..."
    [] agentName = "StatisticalAuditorAgent" -> "Auditing Statistics..."
    [] agentName = "RelatedWorkBaselineAgent" -> "Analyzing Citations..."
    [] agentName = "ReviewerSimulationAgent" -> "Simulating Reviews..."
    [] agentName = "VerdictAgent" -> "Generating Verdict..."
    [] OTHER -> agentName

\* mutant: updateAgentList only adds classes and never removes one
updateAgentList_OnlyAdds(items, currentAgent) ==
  [k \in 1..Len(agentOrder) |->
     IF k < indexOf(currentAgent) THEN items[k] \cup {"completed"}
     ELSE IF k = indexOf(currentAgent) THEN items[k] \cup {"active"}
     ELSE items[k]]

\* updateAgentList, the class lists: before the current index remove
\* 'active' and add 'completed', at it add 'active' and remove 'completed',
\* after it remove both
updateAgentList(items, currentAgent) ==
  [k \in 1..Len(agentOrder) |->
     IF k < indexOf(currentAgent) THEN (items[k] \ {"active"}) \cup {"completed"}
     ELSE IF k = indexOf(currentAgent) THEN (items[k] \cup {"active"}) \ {"completed"}
     ELSE items[k] \ {"active", "completed"}]

\* updateAgentList, completedAgents.add(agentName) for the items before
completedAgentsAfter(done, currentAgent) ==
  done \cup {agentOrder[k] : k \in 1..(indexOf(currentAgent) - 1)}

\* the completed block: every item loses 'active' and gains 'completed'
markAllCompleted(items) ==
  [k \in 1..Len(agentOrder) |-> (items[k] \ {"active"}) \cup {"completed"}]

\* startAnalysis with an upload that succeeds: showProgressView() clears
\* the item classes, startStatusPolling() makes a new Set and arms the timer
startAnalysis ==
  /\ section = "upload"
  /\ section' = "progress"
  /\ agentItems' = [k \in 1..Len(agentOrder) |-> {}]
  /\ completedAgents' = {}
  /\ statusPollingInterval' = TRUE
  /\ UNCHANGED <<currentAgentEl, progressBar, statusFetches, showResultsTimers,
                 reactVars, buildVars>>

\* one firing of the interval callback, up to its await
StatusFetch ==
  /\ statusPollingInterval
  /\ statusFetches + showResultsTimers < MaxInFlight
  /\ statusFetches' = statusFetches + 1
  /\ UNCHANGED <<agentItems, completedAgents, currentAgentEl, progressBar,
                 statusPollingInterval, section, showResultsTimers,
                 reactVars, buildVars>>

\* the interval callback after its await, !response.ok or a rejected fetch:
\* the catch block only logs
StatusFailed ==
  /\ statusFetches > 0
  /\ statusFetches' = statusFetches - 1
  /\ UNCHANGED <<agentItems, completedAgents, currentAgentEl, progressBar,
                 statusPollingInterval, section, showResultsTimers,
                 reactVars, buildVars>>

\* the interval callback after its await, for the body `status`
StatusCallback(status) ==
  /\ statusFetches > 0
  /\ statusFetches' = statusFetches - 1
  /\ progressBar' = status.progress
  /\ currentAgentEl' = IF status.current_agent # ""
                       THEN formatAgentName(status.current_agent)
                       ELSE currentAgentEl
  /\ completedAgents' = IF status.current_agent # ""
                        THEN completedAgentsAfter(completedAgents, status.current_agent)
                        ELSE completedAgents
  /\ agentItems' =
       LET listed == IF status.current_agent # ""
                     THEN updateAgentList(agentItems, status.current_agent)
                     ELSE agentItems
       IN  IF status.status = "completed" THEN markAllCompleted(listed) ELSE listed
  /\ statusPollingInterval' =
       IF status.status \in {"completed", "error"} THEN FALSE ELSE statusPollingInterval
  /\ showResultsTimers' =
       IF status.status = "completed" THEN showResultsTimers + 1 ELSE showResultsTimers
  /\ section' = IF status.status = "error" THEN "upload" ELSE section
  /\ UNCHANGED <<reactVars, buildVars>>

\* a pending setTimeout(() => showResults(status.results), 1000) fires
StaticShowResults ==
  /\ showResultsTimers > 0
  /\ showResultsTimers' = showResultsTimers - 1
  /\ section' = "results"
  /\ UNCHANGED <<agentItems, completedAgents, currentAgentEl, progressBar,
                 statusPollingInterval, statusFetches, reactVars, buildVars>>

\* resetAnalysis, called from the results section
resetAnalysis ==
  /\ section = "results"
  /\ section' = "upload"
  /\ statusPollingInterval' = FALSE
  /\ UNCHANGED <<agentItems, completedAgents, currentAgentEl, progressBar,
                 statusFetches, showResultsTimers, reactVars, buildVars>>

NextStatic ==
  \/ startAnalysis
  \/ StatusFetch
  \/ StatusFailed
  \/ \E status \in StaticSnapshots : StatusCallback(status)
  \/ StaticShowResults
  \/ resetAnalysis

SpecStatic == Init /\ [][NextStatic]_vars

\* the program under its scheduling: a fetch in flight settles, an armed
\* interval fires and a pending setTimeout callback runs, so a step that
\* stays possible is eventually taken
SpecFair == Init /\ [][Next]_vars /\ WF_vars(Next)

(* ------------------------- derived notions ----------------------------- *)
\* the stages shown as running
Running == {n \in StageIds : nodes[n] = "running"}

\* the display state derived from snapshots
Derived == <<nodes, edges, logs, progress, results, error>>

\* the jobs for which a terminal snapshot has been processed
TerminalJobs == {o[1] : o \in observed}

\* the state reset leaves behind
ResetState ==
  /\ stage = "upload"
  /\ sessionId = NoSession
  /\ progress = 0
  /\ logs = <<>>
  /\ results = "null"
  /\ nodes = createInitialNodes
  /\ edges = createInitialEdges

\* the number of entries of log l with message m
CountMsg(l, m) == Cardinality({i \in 1..Len(l) : l[i].msg = m})

\* the number of entries of log l with severity ty
CountType(l, ty) == Cardinality({i \in 1..Len(l) : l[i].type = ty})

\* log l extends log k
IsPrefix(k, l) == Len(k) <= Len(l) /\ SubSeq(l, 1, Len(k)) = k

\* the elements of a list
Range(l) == {l[i] : i \in 1..Len(l)}

\* position of a node id in createInitialNodes(), 0 for any other name
StageIndex(s) ==
  IF s \in StageIds THEN CHOOSE i \in 1..Len(StageOrder) : StageOrder[i] = s ELSE 0

(* -------------------------------- claims ------------------------------- *)

\* C1: in every reachable state at most one of the seven stages is 'running'
\* in the node map, for every snapshot sequence, late responses of an
\* earlier job included.
C1_AtMostOneRunning == Cardinality(Running) <= 1

\* C2: within one job the stored progress never decreases: applying a
\* snapshot of the current job leaves progress >= its value before.
C2_ProgressMonotone ==
  [][\A r \in pending, snap \in Snapshots :
       (stage = "processing" /\ r.job = sessionId /\ PollResponse(r, snap))
         => progress' >= progress]_vars

\* C3: a status request still in flight when reset is performed changes
\* nothing when it resolves: the state is still the one reset left (empty
\* log, seven idle stages, inactive edges, null job id, progress 0, null
\* results, view stage 'upload').
C3_ResetDiscardsInFlight ==
  [][\A r \in pending, snap \in Snapshots :
       (ResetState /\ PollResponse(r, snap)) => ResetState']_vars

\* C4: once a terminal snapshot (completed or error) of a job has been
\* processed, a status response of that job that resolves later is discarded:
\* node statuses, edges, logs, progress, results and error stay unchanged.
C4_NothingAppliedAfterTerminal ==
  [][\A r \in pending, snap \in Snapshots :
       (r.job \in TerminalJobs /\ PollResponse(r, snap)) => UNCHANGED Derived]_vars

\* C5: snapshots are applied in the order their requests were issued: a
\* response is never applied after the response of a later request.
C5_AppliedInIssueOrder ==
  [][\A r \in pending, snap \in Snapshots :
       PollResponse(r, snap) => r.seq > lastApplied]_vars

\* C6: after a terminal snapshot of a job has been processed no status fetch
\* is issued for that job: the step that processes the terminal snapshot of
\* the job being polled leaves no timer armed, and no tick ever fetches the
\* status of a job whose terminal snapshot was processed.
C6_NoFetchAfterTerminal ==
  [][/\ Tick(MaxRequests) => sessionId \notin TerminalJobs
     /\ \A r \in pending, snap \in Snapshots :
          (Terminal(snap) /\ r.job = sessionId /\ PollResponse(r, snap))
            => interval' = NoTimer
     /\ (sessionId' \in TerminalJobs') => interval' = NoTimer]_vars

\* C6 witness: the terminal snapshot of the job being polled was processed
\* while its timer was armed, and the timer is gone.
C6_Witness ==
  /\ stage = "processing"
  /\ sessionId \in TerminalJobs
  /\ interval = NoTimer
  /\ issued < MaxRequests

\* C7: right after a 'completed' snapshot is processed every stage is
\* 'success' and every edge is inactive, whatever the maps held before.
C7_CompletedForcesSuccess ==
  [][\A r \in pending, snap \in Snapshots :
       (snap.status = "completed" /\ PollResponse(r, snap))
         => /\ \A n \in StageIds : nodes'[n] = "success"
            /\ \A e \in EdgeIds : ~edges'[e]]_vars

\* C7 witness: a job completed although no stage was ever reported running
\* (the log holds the completion line and no 'Processing...' line).
C7_Witness ==
  /\ CountMsg(logs, "Analysis complete") = 1
  /\ CountMsg(logs, "Processing...") = 0
  /\ \A n \in StageIds : nodes[n] = "success"
  /\ \A e \in EdgeIds : ~edges[e]

\* C8: a second 'completed' snapshot of the same job changes nothing: it
\* appends no second 'Analysis complete' line and schedules no second
\* delayed transition to the results stage.
C8_CompletedIdempotent ==
  [][\A r \in pending, snap \in Snapshots :
       (snap.status = "completed" /\ <<r.job, "completed">> \in observed
          /\ PollResponse(r, snap))
         => logs' = logs /\ timeouts' = timeouts]_vars

C10_ErrorEscalated ==
  [][\A r \in pending, snap \in Snapshots :
       (snap.status = "error" /\ PollResponse(r, snap))
         => /\ error' = snap.error
            /\ IsPrefix(logs, logs')
            /\ logs'[Len(logs')] = LogEntry("error", snap.error, "error")
            /\ CountType(logs', "error") = CountType(logs, "error") + 1]_vars

\* C10 witness: the banner shows the backend's message and the log ends with
\* the one error entry carrying it.
C10_Witness ==
  /\ error = "boom"
  /\ CountType(logs, "error") = 1
  /\ logs[Len(logs)] = LogEntry("error", "boom", "error")

\* C11: a failed poll (rejected fetch, non-200 answer, malformed body) is
\* swallowed: node statuses, edges, logs, progress, results and the error
\* banner stay as they were and the armed timer stays armed.
C11_FailedPollSwallowed ==
  [][\A r \in pending :
       (PollFail(r) \/ PollHttpError(r))
         => (UNCHANGED Derived /\ timers' = timers)]_vars

\* C12: whenever a stage is 'running', every stage before it in the order
\* paper, repro, evidence, stats, related, reviewer, verdict is 'success'
\* and every stage after it is 'idle'.
C12_RunningSplitsOrder ==
  \A i \in 1..Len(StageOrder) :
    nodes[StageOrder[i]] = "running"
      => /\ \A j \in 1..(i - 1) : nodes[StageOrder[j]] = "success"
         /\ \A j \in (i + 1)..Len(StageOrder) : nodes[StageOrder[j]] = "idle"

\* C13: a stage the backend skipped between two polls of the job being
\* polled is 'success' as soon as the later stage becomes active: when a
\* running snapshot moves the active stage from position p to position
\* i > p + 1, every stage strictly between them is 'success' afterwards.
C13_SkippedStagesSucceed ==
  [][\A r \in pending, snap \in Snapshots :
       (/\ stage = "processing" /\ r.job = sessionId /\ r.eff = interval
        /\ snap.status = "running"
        /\ AgentChanged(r, snap)
        /\ PollResponse(r, snap))
         => \A j \in 1..Len(StageOrder) :
              (/\ StageIndex(lastAgent[r.eff]) < j
               /\ j < StageIndex(mapAgentName(snap.current_agent)))
                => nodes'[StageOrder[j]] = "success"]_vars

\* C14: at most one polling timer is armed, and it is the timer of the
\* current effect run, for the current job id, in the processing stage: a
\* change of job id or of view stage cancels the timer armed before.
C14_OneTimer ==
  /\ Cardinality(timers) <= 1
  /\ \A t \in timers :
       /\ t.eff = interval
       /\ t.job = sessionId
       /\ sessionId # NoSession
       /\ stage = "processing"

\* C14 witness: the timer of a second effect run is armed (polling was
\* started again for a new job) and it is the only one.
C14_Witness ==
  /\ Len(lastAgent) = 2
  /\ timers = {[eff |-> 2, job |-> sessionId]}

\* C15: after a 'completed' snapshot is processed the stored progress is 100,
\* whatever progress field the snapshot carried.
C15_CompletedForcesFullProgress ==
  [][\A r \in pending, snap \in Snapshots :
       (snap.status = "completed" /\ PollResponse(r, snap)) => progress' = 100]_vars

\* C16: the stored progress is within [0,100] in every reachable state.
C16_ProgressInRange == progress >= 0 /\ progress <= 100

\* C17: the log is append-only: every step other than the start of a job
\* (handleUpload leaving the upload stage) and reset (the results stage going
\* back to upload) keeps the entries it found, in place, so the log before
\* is a prefix of the log after.
C17_LogAppendOnly ==
  [][\/ IsPrefix(logs, logs')
     \/ (stage = "upload" /\ stage' = "processing")
     \/ (stage = "results" /\ stage' = "upload")]_vars

\* C17 witness: a job whose log has grown past the banner and the session
\* line by stage hand-overs and the completion line.
C17_Witness ==
  /\ stage = "processing"
  /\ Len(logs) >= 9
  /\ SubSeq(logs, 1, 4) = UploadBanner
  /\ CountMsg(logs, "Analysis complete") = 1

\* C18: no reachable state is a dead end: either the submit action (upload
\* stage) or the reset action (results stage) is available, or something is
\* still under way that can bring the view there (an upload or a status
\* fetch in flight, an armed timer, a pending delayed transition).
C18_NoDeadEnd ==
  \/ stage \in {"upload", "results"}
  \/ uploading # {}
  \/ pending # {}
  \/ timers # {}
  \/ timeouts > 0

\* C19: a failed submission is surfaced, starts no polling, leaves the job id
\* unset and makes the submit action available again (the upload stage).
C19_FailedSubmissionRecovers ==
  [][\A j \in uploading :
       (UploadFail(j) \/ UploadNoId(j))
         => /\ error' = "Upload failed"
            /\ timers' = {}
            /\ sessionId' = NoSession
            /\ stage' = "upload"]_vars

\* C20: without a paper file no step issues an upload request, and the
\* submit handler leaves the whole client state unchanged.
C20_SubmitNeedsPaper ==
  [][~files => /\ uploads' = uploads
               /\ uploading' \subseteq uploading
               /\ (handleUpload => UNCHANGED vars)]_vars

\* C20 witness: after a first job and its reset no paper file is selected:
\* submit is offered and has started nothing.
C20_Witness ==
  /\ stage = "upload"
  /\ ~files
  /\ uploads = 1
  /\ uploads < MaxJobs
  /\ uploading = {}

\* C21: once a 'completed' snapshot of the job on display has been
\* processed, the view eventually reaches the 'results' stage, whatever the
\* results payload was (an absent results object included).
C21_CompletedReachesResults ==
  (stage = "processing" /\ <<sessionId, "completed">> \in observed)
    ~> (stage = "results")

\* C24: when a non-terminal snapshot resolves to a stage s other than the
\* previously-active stage p of its polling run: p (if any) is 'success' and
\* the edges into p are inactive, s is 'running' and the edges into s are
\* active, no other node or edge changes, the log grows by the completion
\* line of p (if any) followed by the 'Processing...' line of s, and s is
\* recorded as the previously-active stage.
C24_HandOver ==
  [][\A r \in pending, snap \in Snapshots :
       (/\ ~Terminal(snap)
        /\ AgentChanged(r, snap)
        /\ PollResponse(r, snap))
         => LET p == lastAgent[r.eff]
                s == mapAgentName(snap.current_agent)
            IN  /\ \A n \in StageIds :
                     nodes'[n] = IF n = s THEN "running"
                                 ELSE IF n = p THEN "success" ELSE nodes[n]
                /\ \A e \in EdgeIds :
                     edges'[e] = IF EdgeTarget[e] = s THEN TRUE
                                 ELSE IF EdgeTarget[e] = p THEN FALSE ELSE edges[e]
                /\ logs' = logs
                            \o (IF p # "" THEN << LogEntry(p, "Complete", "success") >>
                                ELSE << >>)
                            \o << LogEntry(s, "Processing...", "info") >>
                /\ lastAgent'[r.eff] = s
                /\ \A k \in DOMAIN lastAgent : k # r.eff => lastAgent'[k] = lastAgent[k]]_vars

\* C24 witness: the polling run on display handed over from paper to
\* evidence: paper is success, evidence is running with its incoming edge
\* active, and the log ends with the two lines in that order.
C24_Witness ==
  /\ stage = "processing"
  /\ interval # NoTimer
  /\ lastAgent[interval] = "evidence"
  /\ nodes["paper"] = "success"
  /\ nodes["evidence"] = "running"
  /\ edges["e2"]
  /\ Len(logs) >= 2
  /\ logs[Len(logs) - 1] = LogEntry("paper", "Complete", "success")
  /\ logs[Len(logs)] = LogEntry("evidence", "Processing...", "info")

\* C25: a non-terminal snapshot whose resolved stage equals the
\* previously-active stage of its polling run appends no log line and
\* changes no node status, no edge and not the previously-active stage.
C25_RedeliveryNoOp ==
  [][\A r \in pending, snap \in Snapshots :
       (/\ ~Terminal(snap)
        /\ snap.current_agent # ""
        /\ mapAgentName(snap.current_agent) = lastAgent[r.eff]
        /\ PollResponse(r, snap))
         => UNCHANGED <<nodes, edges, logs, lastAgent>>]_vars

\* C25 witness: two snapshots of the job on display have been applied, the
\* second left the single 'Processing...' line of paper and the running
\* paper node as the first made them.
C25_Witness ==
  /\ stage = "processing"
  /\ interval # NoTimer
  /\ lastAgent[interval] = "paper"
  /\ lastApplied = 2
  /\ observed = {}
  /\ nodes["paper"] = "running"
  /\ CountMsg(logs, "Processing...") = 1
  /\ CountMsg(logs, "Complete") = 0

\* C26: in every reachable state an edge is active if and only if its target
\* stage is 'running' (all three edges into reviewer when reviewer runs, no
\* edge when paper runs).
C26_EdgesFollowNodes ==
  \A e \in EdgeIds : edges[e] <=> (nodes[EdgeTarget[e]] = "running")

\* C27: after reset the view stage is 'upload', the job id is null, progress
\* is 0, the log is empty, results and error are null, the seven nodes are
\* idle, the eight edges are inactive and no polling timer is armed.
C27_ResetRestoresInitial ==
  [][reset =>
       /\ stage' = "upload"
       /\ sessionId' = NoSession
       /\ progress' = 0
       /\ logs' = <<>>
       /\ results' = "null"
       /\ error' = "null"
       /\ \A n \in StageIds : nodes'[n] = "idle"
       /\ \A e \in EdgeIds : ~edges'[e]
       /\ timers' = {}
       /\ interval' = NoTimer]_vars

\* C27 witness: the state right after the reset of a job that ran to its
\* completed snapshot.
C27_Witness ==
  /\ ResetState
  /\ error = "null"
  /\ timers = {}
  /\ ~files
  /\ \E j \in 1..MaxJobs : <<j, "completed">> \in observed

\* C29: a non-terminal snapshot without current_agent leaves the node map,
\* the edges, the log and the previously-active stage unchanged.
C29_AgentlessSnapshot ==
  [][\A r \in pending, snap \in Snapshots :
       (/\ ~Terminal(snap)
        /\ snap.current_agent = ""
        /\ PollResponse(r, snap))
         => UNCHANGED <<nodes, edges, logs, lastAgent>>]_vars

\* C29 witness: after paper became active a snapshot without current_agent
\* was applied: it changed the progress to 120 and left paper running.
C29_Witness ==
  /\ stage = "processing"
  /\ interval # NoTimer
  /\ lastAgent[interval] = "paper"
  /\ lastApplied = 2
  /\ pending = {}
  /\ observed = {}
  /\ progress = 120
  /\ nodes["paper"] = "running"
  /\ logs[Len(logs)] = LogEntry("paper", "Processing...", "info")

\* C28: a polling timer is armed only in the processing stage, for the job
\* id on display, and never while the response of the latest submission is
\* still awaited: polling starts only once that response has delivered the
\* job id, and every fetch targets that id.
C28_PollsOnlyDeliveredJob ==
  /\ \A t \in timers :
       /\ stage = "processing"
       /\ sessionId # NoSession
       /\ t.job = sessionId
  /\ (uploads \in uploading) => timers = {}

\* C23: the lookup sends the seven backend names to seven distinct stage
\* ids; every other name comes back unchanged, and a running snapshot that
\* carries such a name for the first time puts a 'Processing...' entry under
\* that name at the end of the log.
C23_LookupTotal ==
  [][/\ \A a \in BackendAgents : mapAgentName(a) \in StageIds
     /\ \A a, b \in BackendAgents : a # b => mapAgentName(a) # mapAgentName(b)
     /\ \A r \in pending, snap \in SnapshotsLookup :
          (/\ snap.status = "running"
           /\ snap.current_agent \notin BackendAgents \cup {""}
           /\ PollResponse(r, snap))
            => /\ mapAgentName(snap.current_agent) = snap.current_agent
               /\ AgentChanged(r, snap)
                    => logs'[Len(logs')]
                         = LogEntry(snap.current_agent, "Processing...", "info")]_vars

\* C22: when both reproducibility.missing_items and
\* reproducibility.missing_reproducibility_items are populated, the missing
\* list that buildAgentResults works with contains every element of both.
C22_AliasUnion ==
  (/\ built
   /\ data.missing_items.defined
   /\ data.missing_items.items # << >>
   /\ data.missing_reproducibility_items.defined
   /\ data.missing_reproducibility_items.items # << >>)
    => \A x \in Range(data.missing_items.items)
                  \cup Range(data.missing_reproducibility_items.items) :
         x \in Range(missingItems)

\* C30: in the static client, after a running status naming the agent at
\* position i of agentOrder is processed, every item before i is 'completed'
\* and not 'active', item i is 'active' and not 'completed', every item
\* after i is neither; a name outside agentOrder leaves no item 'active' or
\* 'completed'.
C30_AgentListByIndex ==
  [][\A status \in StaticSnapshots :
       (/\ status.status = "running"
        /\ status.current_agent # ""
        /\ StatusCallback(status))
         => \A k \in 1..Len(agentOrder) :
              LET i == indexOf(status.current_agent)
              IN  /\ (i # 0 /\ k < i) => agentItems'[k] = {"completed"}
                  /\ (i # 0 /\ k = i) => agentItems'[k] = {"active"}
                  /\ (i = 0 \/ k > i) => agentItems'[k] = {}]_vars

\* C30 witness: the list after a status naming the third agent: two items
\* completed, the third active, the other four waiting, and the first two
\* names in completedAgents.
C30_Witness ==
  /\ section = "progress"
  /\ agentItems = [k \in 1..Len(agentOrder) |->
                     IF k < 3 THEN {"completed"} ELSE IF k = 3 THEN {"active"} ELSE {}]
  /\ completedAgents = {"PaperParserAgent", "ReproducibilityAgent"}
  /\ currentAgentEl = "Mapping Experiments..."

====
